---- MODULE Spec2Model ----
(***************************************************************************)
(* A model of saphir's server.rs: the process-wide singleton               *)
(* (INIT_STACK, STACK, SERVER_NAME, the request body limit) and its        *)
(* initializer write_into_static, the in-flight counter                    *)
(* REQUEST_FUTURE_COUNT, the request pipeline (Stack::invoke and           *)
(* Stack::invoke_with_timeout behind StackHandler, TimeoutStackHandler and *)
(* inject_raw), the accept loops of Server::run and the shutdown           *)
(* controller (ServerShutdown polled by ServerFuture).                     *)
(*                                                                         *)
(* Granularity.  The process runs on a multi-threaded executor, so every   *)
(* access to shared memory (the Once, the statics, the two atomics) is a   *)
(* step of its own, except where a handler makes a single such access and  *)
(* the rest of it is local to its task: such a handler is one action.      *)
(* ServerFuture::poll polls the shutdown controller and then the accept    *)
(* loop inside one task, so the two never interleave with each other; the  *)
(* draining flag is written by that task alone.                            *)
(***************************************************************************)
EXTENDS Integers, Sequences, FiniteSets, TLC

\* ---------------------------------------------------------------- bounds
\* Concurrent Builder::build_stack_only calls beside the one Server::run.
NBuildStackOnly == 1
\* Connections that reach the listener during the run.
MaxConns == 2
\* Concurrent callers of inject_raw.
MaxInject == 1

\* The caller of write_into_static that is Server::run; the callers
\* 1..NBuildStackOnly are Builder::build_stack_only calls.
RunCaller == 0
BuildCallers == 1..NBuildStackOnly
Callers == {RunCaller} \cup BuildCallers
Conns == 1..MaxConns
Injectors == 1..MaxInject

\* Option<T> and MaybeUninit<T>: the empty sequence is None / uninitialized
\* memory, a one-element sequence is Some(v) / written memory.
None == << >>
Some(v) == << v >>

VARIABLES
    INIT_STACK,               \* parking_lot::Once: "New", "InProgress", "Done"
    STACK,                    \* MaybeUninit<Stack>
    SERVER_NAME,              \* MaybeUninit<HeaderValue>
    REQUEST_BODY_BYTES_LIMIT, \* crate::body::REQUEST_BODY_BYTES_LIMIT
    REQUEST_FUTURE_COUNT,     \* AtomicU64, as the integer it holds
    pc,                       \* each caller's position in run / build_stack_only
    server_value,             \* each caller's HeaderValue::from_str(name) result
    listener,                 \* run's TcpListener: "none", "bound", "closed"
    request_timeout_ms,       \* ListenerConfig.request_timeout_ms: None or Some
    ssl_config,               \* ListenerConfig.cert_config and key_config
    graceful,                 \* ServerShutdown.graceful
    signal,                   \* ServerShutdown.signal
    draining,                 \* SeverShutdownState.draining
    shutdown,                 \* what the last ServerShutdown::poll returned
    woken,                    \* the ServerFuture task is scheduled for a poll
    timers,                   \* spawned delay_for tasks that will wake it
    conn,                     \* each connection, from the listener to its end
    handler,                  \* each connection's handler: peer_addr, request, result
    inj                       \* each inject_raw call: position and result

vars == << INIT_STACK, STACK, SERVER_NAME, REQUEST_BODY_BYTES_LIMIT,
           REQUEST_FUTURE_COUNT, pc, server_value, listener, request_timeout_ms,
           ssl_config,
           graceful, signal, draining, shutdown, woken, timers, conn, handler,
           inj >>

singleton == << INIT_STACK, STACK, SERVER_NAME, REQUEST_BODY_BYTES_LIMIT >>
config == << server_value, request_timeout_ms, ssl_config, graceful >>
server == << signal, draining, shutdown, woken, timers >>
requests == << conn, handler, inj >>

\* ------------------------------------------------------------ results
\* Result<Response, SaphirError>, with the errors logged on the way.
NoResponse == [body |-> "none", of |-> "none", server |-> None]
Ok(r) == [kind |-> "Ok", resp |-> r, err |-> "none"]
Err(e) == [kind |-> "Err", resp |-> NoResponse, err |-> e]
NoResult == [kind |-> "None", resp |-> NoResponse, err |-> "none"]

\* What middlewares.next(ctx).await leaves: a context holding a response, a
\* context whose response was never set, or an error.
MwOutcomes == {"Response", "NoResponse", "MwError"}

\* .and_then(|mut ctx| ctx.state.take_response().ok_or(ResponseMoved))
take_response(mw) ==
    CASE mw = "Response" -> Ok([body |-> "controller", of |-> "none", server |-> None])
      [] mw = "NoResponse" -> Err("ResponseMoved")
      [] OTHER -> Err("MwError")

\* The error closure of invoke and invoke_with_timeout: e.log(&err_ctx), then
\* e.response_builder(builder, &err_ctx).build(), whose failure e2 is logged
\* and returned.  built says whether build() succeeds.
render_error(e, built) ==
    IF built
    THEN [res |-> Ok([body |-> "rendered", of |-> e, server |-> None]),
          logged |-> << e >>]
    ELSE [res |-> Err("BuildError"), logged |-> << e, "BuildError" >>]

\* An invoke that hands the pipeline's error back as it is.
invoke_unrendered(mw, built) == [res |-> take_response(mw), logged |-> << >>]

\* Stack::invoke, from the outcome of the middleware chain to its result.
invoke(mw, built) ==
    LET r == take_response(mw) IN
    IF r.kind = "Ok" THEN [res |-> r, logged |-> << >>]
    ELSE render_error(r.err, built)

\* invoke_with_timeout returning the timeout error as it is, unrendered.
invoke_with_timeout_unrendered(raced, built) ==
    IF raced = "Elapsed" THEN [res |-> Err("RequestTimeout"), logged |-> << >>]
    ELSE [res |-> take_response(raced), logged |-> << >>]

\* Stack::invoke_with_timeout: raced is "Elapsed" when the timer won, else the
\* outcome of the middleware chain.  Ok(res) => res hands the inner result
\* back as it is; only the timeout error reaches the error closure.
invoke_with_timeout(raced, built) ==
    IF raced = "Elapsed" THEN render_error("RequestTimeout", built)
    ELSE [res |-> take_response(raced), logged |-> << >>]

\* The .map(|r| r.and_then(...)) of StackHandler::call and
\* TimeoutStackHandler::call: the Server header is inserted from SERVER_NAME,
\* then into_raw, which may fail.
handler_map(r, name, raw) ==
    IF r.kind # "Ok" THEN r
    ELSE IF raw THEN Ok([r.resp EXCEPT !.server = name])
    ELSE Err("IntoRawError")

\* inject_raw's tail: invoke(..).await? and into_raw, no header inserted.
inject_map(r, raw) ==
    IF r.kind # "Ok" THEN r
    ELSE IF raw THEN r
    ELSE Err("IntoRawError")

\* ------------------------------------------------------------------ Init
\* A connection's handler as new_handler / new_timeout_handler makes it,
\* holding the peer address; peer is the peer address of the request in the
\* middleware chain, unset while there is none.
IdleHandler == [peer_addr |-> "Some", peer |-> "unset", req |-> "idle",
                mw |-> "none", invoked |-> NoResult, logged |-> << >>,
                out |-> NoResult]

\* An inject_raw call; stack is what the call has read from STACK, None
\* while it has not read it.
IdleInject == [req |-> "idle", stack |-> None, mw |-> "none",
               invoked |-> NoResult, logged |-> << >>, out |-> NoResult]

\* Option<SslConfig> twice: the certificate and the key of ListenerConfig.
SslConfigs == [cert_config : {"None", "Some"}, key_config : {"None", "Some"}]

\* What ListenerBuilder produces: new() leaves both None, set_ssl_config and
\* set_ssl_certificates store both.
BuilderSslConfigs == {ssl \in SslConfigs : ssl.cert_config = ssl.key_config}

\* The state when Server::run is called with a ListenerConfig whose TLS
\* fields are drawn from ssls.
InitWith(ssls) ==
    /\ INIT_STACK = "New"
    /\ STACK = None
    /\ SERVER_NAME = None
    /\ REQUEST_BODY_BYTES_LIMIT = None
    /\ REQUEST_FUTURE_COUNT = 0
    /\ pc = [i \in Callers |-> "start"]
    /\ server_value = [i \in Callers |-> "unparsed"]
    /\ listener = "none"
    /\ request_timeout_ms \in {"None", "Some"}
    /\ ssl_config \in ssls
    /\ \E sig \in {"absent", "waiting"}, g \in BOOLEAN :
          /\ signal = sig
          /\ graceful = g
          \* ServerShutdown::pending(): no signal, graceful false
          /\ sig = "absent" => ~g
    /\ draining = FALSE
    /\ shutdown = "Pending"
    /\ woken = FALSE
    /\ timers = 0
    /\ conn = [c \in Conns |-> "none"]
    /\ handler = [c \in Conns |-> IdleHandler]
    /\ inj = [k \in Injectors |-> IdleInject]

Init == InitWith(BuilderSslConfigs)

\* Server::run given any value of the ListenerConfig type, the partial TLS
\* configurations that ListenerBuilder does not produce included.
InitAnyConfig == InitWith(SslConfigs)

\* ---------------------------------------------------- write_into_static
\* A state check that refuses only while another caller is inside call_once.
state_check_in_progress(once) == once = "InProgress"

\* if INIT_STACK.state() != OnceState::New { return Err(StackAlreadyInitialized) }
state_check(once) == once # "New"

\* An entry that goes to write_into_static whatever from_str returned.
wis_entry_unvalidated(parsed, once) ==
    IF state_check(once) THEN "StackAlreadyInitialized" ELSE "call_once"

\* The first statements of Server::run and of build_stack_only:
\* HeaderValue::from_str(..)? returns the error of an invalid name, else
\* write_into_static is called and evaluates its state check.
wis_entry(parsed, once) ==
    IF parsed = "Err" THEN "InvalidHeaderValue"
    ELSE IF state_check(once) THEN "StackAlreadyInitialized"
    ELSE "call_once"

\* Server::run / build_stack_only are called with a server name that is a
\* valid header value or is not, and reach write_into_static's state check.
WisCheck(i) ==
    /\ pc[i] = "start"
    /\ \E parsed \in {"Ok", "Err"} :
          /\ server_value' = [server_value EXCEPT ![i] = parsed]
          /\ pc' = [pc EXCEPT ![i] = wis_entry(parsed, INIT_STACK)]
    /\ UNCHANGED << singleton, REQUEST_FUTURE_COUNT, listener, request_timeout_ms,
                    ssl_config, graceful, server, requests >>

\* A call_once that runs the closure of every caller.
runs_closure_always(once) == TRUE

\* Once::call_once decides from the Once's state whether this caller runs the
\* closure: only from New.  It blocks while another caller is inside.
runs_closure(once) == once = "New"

\* A call_once that does not wait for the caller running the closure.
CallOnce_nonblocking(i) ==
    /\ pc[i] = "call_once"
    /\ IF runs_closure(INIT_STACK)
       THEN /\ INIT_STACK' = "InProgress"
            /\ pc' = [pc EXCEPT ![i] = "write_stack"]
       ELSE /\ pc' = [pc EXCEPT ![i] = "read_stack"]
            /\ UNCHANGED INIT_STACK
    /\ UNCHANGED << STACK, SERVER_NAME, REQUEST_BODY_BYTES_LIMIT,
                    REQUEST_FUTURE_COUNT, listener, config, server, requests >>

CallOnce(i) ==
    /\ pc[i] = "call_once"
    /\ INIT_STACK # "InProgress"
    /\ IF runs_closure(INIT_STACK)
       THEN /\ INIT_STACK' = "InProgress"
            /\ pc' = [pc EXCEPT ![i] = "write_stack"]
       ELSE /\ pc' = [pc EXCEPT ![i] = "read_stack"]
            /\ UNCHANGED INIT_STACK
    /\ UNCHANGED << STACK, SERVER_NAME, REQUEST_BODY_BYTES_LIMIT,
                    REQUEST_FUTURE_COUNT, listener, config, server, requests >>

\* STACK.as_mut_ptr().write(stack)
WriteStack(i) ==
    /\ pc[i] = "write_stack"
    /\ STACK' = Some(i)
    /\ pc' = [pc EXCEPT ![i] = "write_name"]
    /\ UNCHANGED << INIT_STACK, SERVER_NAME, REQUEST_BODY_BYTES_LIMIT,
                    REQUEST_FUTURE_COUNT, listener, config, server, requests >>

\* SERVER_NAME.as_mut_ptr().write(server_value)
WriteName(i) ==
    /\ pc[i] = "write_name"
    /\ SERVER_NAME' = Some(i)
    /\ pc' = [pc EXCEPT ![i] = "write_limit"]
    /\ UNCHANGED << INIT_STACK, STACK, REQUEST_BODY_BYTES_LIMIT,
                    REQUEST_FUTURE_COUNT, listener, config, server, requests >>

\* crate::body::REQUEST_BODY_BYTES_LIMIT = request_body_max; the closure
\* returns and call_once marks the Once Done.
WriteLimit(i) ==
    /\ pc[i] = "write_limit"
    /\ REQUEST_BODY_BYTES_LIMIT' = Some(i)
    /\ INIT_STACK' = "Done"
    /\ pc' = [pc EXCEPT ![i] = "read_stack"]
    /\ UNCHANGED << STACK, SERVER_NAME, REQUEST_FUTURE_COUNT, listener, config, server,
                    requests >>

\* let stack = unsafe { STACK.as_ptr().as_ref() }; Ok(stack)
ReadStack(i) ==
    /\ pc[i] = "read_stack"
    /\ pc' = [pc EXCEPT ![i] = "Ok"]
    /\ UNCHANGED << singleton, REQUEST_FUTURE_COUNT, listener, config, server, requests >>

write_into_static(i) ==
    \/ WisCheck(i)
    \/ CallOnce(i)
    \/ WriteStack(i)
    \/ WriteName(i)
    \/ WriteLimit(i)
    \/ ReadStack(i)

\* ------------------------------------------------------------ Server::run
\* A run that gives the singleton back when it cannot bind.
RunBind_resetting ==
    /\ pc[RunCaller] = "Ok"
    /\ \E bound \in BOOLEAN :
          IF bound
          THEN /\ pc' = [pc EXCEPT ![RunCaller] = "bound"]
               /\ listener' = "bound"
               /\ UNCHANGED INIT_STACK
          ELSE /\ pc' = [pc EXCEPT ![RunCaller] = "bind_failed"]
               /\ INIT_STACK' = "New"
               /\ UNCHANGED listener
    /\ UNCHANGED << STACK, SERVER_NAME, REQUEST_BODY_BYTES_LIMIT,
                    REQUEST_FUTURE_COUNT, config, server, requests >>

\* TcpListener::bind(iface).await? and local_addr()?: the run holds a bound
\* listener, or returns the io error.
RunBind ==
    /\ pc[RunCaller] = "Ok"
    /\ \E bound \in BOOLEAN :
          IF bound
          THEN /\ pc' = [pc EXCEPT ![RunCaller] = "bound"]
               /\ listener' = "bound"
          ELSE /\ pc' = [pc EXCEPT ![RunCaller] = "bind_failed"]
               /\ UNCHANGED listener
    /\ UNCHANGED << singleton, REQUEST_FUTURE_COUNT, config, server, requests >>

\* The match on listener_config.ssl_config() that builds the incoming stream.
ssl_match(ssl) ==
    IF ssl.cert_config = "Some" /\ ssl.key_config = "Some" THEN "Tls"
    ELSE IF ssl.cert_config # ssl.key_config
         THEN "Invalid SSL configuration, missing cert or key"
         ELSE "Plain"

\* The incoming block of run (https feature): a TLS or a plain stream over
\* the bound listener, then ServerFuture::new(..).await polls the server
\* future for the first time; load_certs / load_private_key panic on a
\* certificate or key they cannot load; a partial configuration returns
\* Err(Other(..)).  Leaving run drops the listener.
RunIncoming ==
    /\ pc[RunCaller] = "bound"
    /\ LET m == ssl_match(ssl_config) IN
          IF m \in {"Tls", "Plain"}
          THEN \E loaded \in IF m = "Tls" THEN BOOLEAN ELSE {TRUE} :
                  IF loaded
                  THEN /\ pc' = [pc EXCEPT ![RunCaller] = "serving"]
                       /\ woken' = TRUE
                       /\ UNCHANGED listener
                  ELSE /\ pc' = [pc EXCEPT ![RunCaller] = "panicked"]
                       /\ listener' = "closed"
                       /\ UNCHANGED woken
          ELSE /\ pc' = [pc EXCEPT ![RunCaller] = "ssl_config_error"]
               /\ listener' = "closed"
               /\ UNCHANGED woken
    /\ UNCHANGED << singleton, REQUEST_FUTURE_COUNT, config, signal, draining,
                    shutdown, timers, requests >>

\* The caller-supplied shutdown signal becomes ready and wakes the task that
\* polled it.
SignalFires ==
    /\ signal = "waiting"
    /\ signal' = "fired"
    /\ woken' = (woken \/ pc[RunCaller] = "serving")
    /\ UNCHANGED << singleton, REQUEST_FUTURE_COUNT, pc, listener, config, draining,
                    shutdown, timers, requests >>

\* A spawned delay_for(..).map(move |_| waker.wake()) elapses.
DelayElapses ==
    /\ pc[RunCaller] = "serving"
    /\ timers > 0
    /\ timers' = timers - 1
    /\ woken' = TRUE
    /\ UNCHANGED << singleton, REQUEST_FUTURE_COUNT, pc, listener, config, signal,
                    draining, shutdown, requests >>

\* A connection reaches the bound listener: the incoming stream will yield
\* Ok(socket) or Err(e) for it, and the listener wakes the accept loop.
ConnArrives(c) ==
    /\ pc[RunCaller] = "serving"
    /\ conn[c] = "none"
    /\ \E item \in {"queued_ok", "queued_err"} : conn' = [conn EXCEPT ![c] = item]
    /\ woken' = TRUE
    /\ UNCHANGED << singleton, REQUEST_FUTURE_COUNT, pc, listener, config, signal,
                    draining, shutdown, timers, handler, inj >>

\* A signal branch that drains whatever the graceful flag says.
poll_signal_always_drains(dr, sig, g) ==
    CASE sig = "fired" ->
            [ret |-> "Pending", draining |-> TRUE, signal |-> "consumed",
             arm |-> TRUE]
      [] sig = "consumed" ->
            [ret |-> "Pending", draining |-> dr, signal |-> "repolled",
             arm |-> FALSE]
      [] OTHER ->
            [ret |-> "Pending", draining |-> dr, signal |-> sig, arm |-> FALSE]

\* A signal branch for which the absent signal is a ready one.
poll_signal_absent_ready(dr, sig, g) ==
    CASE sig \in {"fired", "absent"} ->
            IF ~g
            THEN [ret |-> "Ready", draining |-> dr, signal |-> "consumed",
                  arm |-> FALSE]
            ELSE [ret |-> "Pending", draining |-> TRUE, signal |-> "consumed",
                  arm |-> TRUE]
      [] sig = "consumed" ->
            [ret |-> "Pending", draining |-> dr, signal |-> "repolled",
             arm |-> FALSE]
      [] OTHER ->
            [ret |-> "Pending", draining |-> dr, signal |-> sig, arm |-> FALSE]

\* The branch of ServerShutdown::poll taken while the draining flag is false:
\* the signal is polled; when it is ready the controller resolves at once
\* (not graceful) or sets the flag and spawns a delay_for to be woken.
poll_signal(dr, sig, g) ==
    CASE sig = "fired" ->
            IF ~g
            THEN [ret |-> "Ready", draining |-> dr, signal |-> "consumed",
                  arm |-> FALSE]
            ELSE [ret |-> "Pending", draining |-> TRUE, signal |-> "consumed",
                  arm |-> TRUE]
      [] sig = "consumed" ->
            \* the signal future polled again after it returned Ready
            [ret |-> "Pending", draining |-> dr, signal |-> "repolled",
             arm |-> FALSE]
      [] OTHER ->
            [ret |-> "Pending", draining |-> dr, signal |-> sig, arm |-> FALSE]

\* A controller that resolves as soon as it is draining, without the counter.
ServerShutdown_poll_uncounted(dr, count, sig, g) ==
    IF dr
    THEN [ret |-> "Ready", draining |-> dr, signal |-> sig, arm |-> FALSE]
    ELSE poll_signal(dr, sig, g)

\* A controller that clears the draining flag when it resolves.
ServerShutdown_poll_resetting(dr, count, sig, g) ==
    IF dr
    THEN IF count = 0
         THEN [ret |-> "Ready", draining |-> FALSE, signal |-> sig, arm |-> FALSE]
         ELSE [ret |-> "Pending", draining |-> dr, signal |-> sig, arm |-> TRUE]
    ELSE poll_signal(dr, sig, g)

\* A controller whose Pending while draining spawns no delay_for.
ServerShutdown_poll_unarmed(dr, count, sig, g) ==
    IF dr
    THEN IF count = 0
         THEN [ret |-> "Ready", draining |-> dr, signal |-> sig, arm |-> FALSE]
         ELSE [ret |-> "Pending", draining |-> dr, signal |-> sig, arm |-> FALSE]
    ELSE poll_signal(dr, sig, g)

\* A controller that polls the signal again until the counter is 0.
ServerShutdown_poll_signal_first(dr, count, sig, g) ==
    IF dr /\ count = 0
    THEN [ret |-> "Ready", draining |-> dr, signal |-> sig, arm |-> FALSE]
    ELSE [poll_signal(dr, sig, g) EXCEPT !.arm = dr \/ @]

\* ServerShutdown::poll as a function of what it reads: the value returned,
\* the draining flag and the signal afterwards, and whether a delay_for was
\* spawned to wake the task.
ServerShutdown_poll(dr, count, sig, g) ==
    IF dr
    THEN IF count = 0
         THEN [ret |-> "Ready", draining |-> dr, signal |-> sig, arm |-> FALSE]
         ELSE [ret |-> "Pending", draining |-> dr, signal |-> sig, arm |-> TRUE]
    ELSE poll_signal(dr, sig, g)

\* An accept closure that spawns without looking at the draining flag.
accept_timeout_unchecked(item, dr) ==
    IF item = "queued_ok" THEN "TimeoutStackHandler" ELSE "accept_err"

\* The closure of the accept loop with a request timeout (lines 535-554),
\* applied to one item of the incoming stream.
accept_timeout(item, dr) ==
    IF ~dr
    THEN IF item = "queued_ok" THEN "TimeoutStackHandler" ELSE "accept_err"
    ELSE "skipped"

\* The closure of the accept loop without a request timeout (lines 557-576).
accept_plain(item, dr) ==
    IF ~dr
    THEN IF item = "queued_ok" THEN "StackHandler" ELSE "accept_err"
    ELSE "skipped"

\* incoming.for_each_concurrent(None, ..) polled once: every item the
\* stream holds is pulled and handed to the closure of the configured loop.
incoming_poll(cs, dr, timeout) ==
    [c \in Conns |->
        IF cs[c] \in {"queued_ok", "queued_err"}
        THEN IF timeout = "Some" THEN accept_timeout(cs[c], dr)
             ELSE accept_plain(cs[c], dr)
        ELSE cs[c]]

\* What the closure of the configured accept loop makes of one item.
accept(item, dr, timeout) ==
    IF timeout = "Some" THEN accept_timeout(item, dr) ELSE accept_plain(item, dr)

\* The accept loop polled once over MaybeTlsAcceptor::Tls, that is over
\* listener.incoming().and_then(|stream| acceptor.accept(stream)): and_then
\* holds one handshake at a time.  A finished handshake is yielded to the
\* closure; while a handshake is pending the stream is pending and the
\* listener is not polled; otherwise the listener's items are pulled in
\* their order of arrival (any order here), errors going to the closure,
\* until an Ok socket starts the next handshake.
tls_incoming_polls(cs, dr, timeout) ==
    LET cs1 == [c \in Conns |->
                  IF cs[c] = "hs_ok" THEN accept("queued_ok", dr, timeout)
                  ELSE IF cs[c] = "hs_err" THEN accept("queued_err", dr, timeout)
                  ELSE cs[c]]
        Qok == {c \in Conns : cs1[c] = "queued_ok"}
        Qerr == {c \in Conns : cs1[c] = "queued_err"}
    IN  IF \E c \in Conns : cs1[c] = "handshake"
        THEN {cs1}
        ELSE IF Qok = {}
        THEN {[c \in Conns |->
                 IF c \in Qerr THEN accept("queued_err", dr, timeout) ELSE cs1[c]]}
        ELSE {[c \in Conns |->
                 IF c = h THEN "handshake"
                 ELSE IF c \in E THEN accept("queued_err", dr, timeout)
                 ELSE cs1[c]] : h \in Qok, E \in SUBSET Qerr}

\* The accept loop polled once over the stream that run built.
incoming_polls(cs, dr, timeout, ssl) ==
    IF ssl_match(ssl) = "Tls"
    THEN tls_incoming_polls(cs, dr, timeout)
    ELSE {incoming_poll(cs, dr, timeout)}

\* The client's side of a TLS handshake arrives: acceptor.accept(stream)
\* becomes ready with the TLS stream or with an error, and wakes the task.
HandshakeDone(c) ==
    /\ pc[RunCaller] = "serving"
    /\ conn[c] = "handshake"
    /\ \E r \in {"hs_ok", "hs_err"} : conn' = [conn EXCEPT ![c] = r]
    /\ woken' = TRUE
    /\ UNCHANGED << singleton, REQUEST_FUTURE_COUNT, pc, listener, config, signal,
                    draining, shutdown, timers, handler, inj >>

\* A server future that waits for both of its halves.
ServerFuture_result_join(sh, inc) ==
    IF sh = "Ready" /\ inc = "Ready" THEN "Ready" ELSE "Pending"

\* The match of ServerFuture::poll over what its two halves return; inc is
\* looked at only when sh is Pending.
ServerFuture_result(sh, inc) ==
    IF sh = "Ready" THEN "Ready" ELSE inc

\* ServerFuture::poll: the shutdown controller first; when it is pending, the
\* accept loop, which pulls what the stream holds and returns Pending, since
\* tokio's Incoming never yields None.
ServerFuture_poll ==
    /\ pc[RunCaller] = "serving"
    /\ woken
    /\ LET p == ServerShutdown_poll(draining, REQUEST_FUTURE_COUNT, signal, graceful) IN
          /\ draining' = p.draining
          /\ signal' = p.signal
          /\ shutdown' = p.ret
          /\ timers' = IF p.arm THEN timers + 1 ELSE timers
          /\ IF p.ret = "Ready"
             THEN UNCHANGED conn
             ELSE conn' \in incoming_polls(conn, p.draining, request_timeout_ms,
                                           ssl_config)
          /\ IF ServerFuture_result(p.ret, "Pending") = "Ready"
             THEN /\ pc' = [pc EXCEPT ![RunCaller] = "returned"]
                  /\ listener' = "closed"
             ELSE UNCHANGED << pc, listener >>
    /\ woken' = FALSE
    /\ UNCHANGED << singleton, REQUEST_FUTURE_COUNT, config, handler, inj >>

\* ------------------------------------------------------ request handling
\* An increment that is lost.
fetch_add_lost(n) == n

fetch_add(n) == n + 1

\* AtomicU64::fetch_sub wraps below zero; the model keeps the mathematical
\* value, so a wrap shows as a negative count.
fetch_sub(n) == n - 1

\* A decrement that an early return of the error skips.
count_after_invoke_ok_only(n, res) == IF res.kind = "Err" THEN n ELSE fetch_sub(n)

\* REQUEST_FUTURE_COUNT.fetch_sub(1, SeqCst) is the statement before the
\* final `res` of invoke and invoke_with_timeout, whatever res is.
count_after_invoke(n, res) == fetch_sub(n)

Serving(c) == conn[c] \in {"StackHandler", "TimeoutStackHandler"}

\* An Option read that leaves the value in place.
take_cloning(opt) == [value |-> opt, left |-> opt]

\* Option::take on the handler's peer_addr: the value goes to the caller and
\* None is left behind.
take(opt) == [value |-> opt, left |-> "None"]

\* StackHandler::call / TimeoutStackHandler::call: the counter is incremented
\* and the request is built with the peer address taken out of the handler
\* when hyper hands the handler a request; the boxed future starts towards
\* the middleware chain.
HandlerCall(c) ==
    /\ Serving(c)
    /\ handler[c].req = "idle"
    /\ REQUEST_FUTURE_COUNT' = fetch_add(REQUEST_FUTURE_COUNT)
    /\ LET t == take(handler[c].peer_addr) IN
          handler' = [handler EXCEPT ![c] = [IdleHandler EXCEPT !.peer_addr = t.left,
                                                                !.peer = t.value,
                                                                !.req = "inflight"]]
    /\ UNCHANGED << singleton, pc, listener, config, server, conn, inj >>

\* StackHandler's future completes: the middleware chain has finished,
\* invoke builds its result and decrements, the handler maps it.
StackHandlerDone(c) ==
    /\ conn[c] = "StackHandler"
    /\ handler[c].req = "inflight"
    /\ \E mw \in MwOutcomes, built \in BOOLEAN, raw \in BOOLEAN :
          LET r == invoke(mw, built) IN
          /\ handler' = [handler EXCEPT ![c] =
                [@ EXCEPT !.req = "result", !.peer = "unset", !.mw = mw,
                          !.invoked = r.res, !.logged = r.logged,
                          !.out = handler_map(r.res, SERVER_NAME, raw)]]
          /\ REQUEST_FUTURE_COUNT' = count_after_invoke(REQUEST_FUTURE_COUNT, r.res)
    /\ UNCHANGED << singleton, pc, listener, config, server, conn, inj >>

\* TimeoutStackHandler's future completes: either the middleware chain
\* finished before the timer, or the timer elapsed and the chain is dropped.
TimeoutStackHandlerDone(c) ==
    /\ conn[c] = "TimeoutStackHandler"
    /\ handler[c].req = "inflight"
    /\ \E raced \in MwOutcomes \cup {"Elapsed"}, built \in BOOLEAN, raw \in BOOLEAN :
          LET r == invoke_with_timeout(raced, built) IN
          /\ handler' = [handler EXCEPT ![c] =
                [@ EXCEPT !.req = "result", !.peer = "unset", !.mw = raced,
                          !.invoked = r.res, !.logged = r.logged,
                          !.out = handler_map(r.res, SERVER_NAME, raw)]]
          /\ REQUEST_FUTURE_COUNT' = count_after_invoke(REQUEST_FUTURE_COUNT, r.res)
    /\ UNCHANGED << singleton, pc, listener, config, server, conn, inj >>

\* hyper takes the handler's result: a response is written to the client and
\* the connection waits for its next request; an error ends serve_connection
\* with Err, which the connection task logs, and no response is written.
HyperResponds(c) ==
    /\ Serving(c)
    /\ handler[c].req = "result"
    /\ IF handler[c].out.kind = "Ok"
       THEN /\ handler' = [handler EXCEPT ![c] = [IdleHandler EXCEPT !.peer_addr = "None"]]
            /\ UNCHANGED conn
       ELSE /\ conn' = [conn EXCEPT ![c] = "failed"]
            /\ handler' = [handler EXCEPT ![c] = [IdleHandler EXCEPT !.peer_addr = "None"]]
    /\ UNCHANGED << singleton, REQUEST_FUTURE_COUNT, pc, listener, config, server, inj >>

\* The client closes the connection between two requests.
ConnCloses(c) ==
    /\ Serving(c)
    /\ handler[c].req = "idle"
    /\ conn' = [conn EXCEPT ![c] = "closed"]
    /\ UNCHANGED << singleton, REQUEST_FUTURE_COUNT, pc, listener, config, server, handler, inj >>

\* A dropped handler future that gives its count back, as a guard's Drop would.
ConnAborts_guarded(c) ==
    /\ Serving(c)
    /\ handler[c].req = "inflight"
    /\ conn' = [conn EXCEPT ![c] = "aborted"]
    /\ handler' = [handler EXCEPT ![c].req = "dropped", ![c].peer = "unset"]
    /\ REQUEST_FUTURE_COUNT' = fetch_sub(REQUEST_FUTURE_COUNT)
    /\ UNCHANGED << singleton, pc, listener, config, server, inj >>

\* The connection ends while its request is in the middleware chain: hyper
\* drops the handler's future, whose remaining statements never run.
ConnAborts(c) ==
    /\ Serving(c)
    /\ handler[c].req = "inflight"
    /\ conn' = [conn EXCEPT ![c] = "aborted"]
    /\ handler' = [handler EXCEPT ![c].req = "dropped", ![c].peer = "unset"]
    /\ UNCHANGED << singleton, REQUEST_FUTURE_COUNT, pc, listener, config, server, inj >>

\* A guard that takes a Once in progress for an initialized one.
inject_state_check_new_only(once) == once = "New"

\* The guard of inject_raw: INIT_STACK.state() != OnceState::Done.
inject_state_check(once) == once # "Done"

\* inject_raw up to its await: the Once must be Done, else the call returns
\* the "Stack is not initialized" error; STACK is read, the counter is
\* incremented and invoke starts.
InjectCall(k) ==
    /\ inj[k].req = "idle"
    /\ IF inject_state_check(INIT_STACK)
       THEN /\ inj' = [inj EXCEPT ![k] =
                         [IdleInject EXCEPT !.req = "result",
                                            !.out = Err("Stack is not initialized")]]
            /\ UNCHANGED REQUEST_FUTURE_COUNT
       ELSE /\ inj' = [inj EXCEPT ![k] = [IdleInject EXCEPT !.req = "inflight",
                                                            !.stack = Some(STACK)]]
            /\ REQUEST_FUTURE_COUNT' = fetch_add(REQUEST_FUTURE_COUNT)
    /\ UNCHANGED << singleton, pc, listener, config, server, conn, handler >>

\* inject_raw after the await: invoke's result, `?`, into_raw.
InjectDone(k) ==
    /\ inj[k].req = "inflight"
    /\ \E mw \in MwOutcomes, built \in BOOLEAN, raw \in BOOLEAN :
          LET r == invoke(mw, built) IN
          /\ inj' = [inj EXCEPT ![k] =
                [@ EXCEPT !.req = "result", !.mw = mw, !.invoked = r.res,
                          !.logged = r.logged, !.out = inject_map(r.res, raw)]]
          /\ REQUEST_FUTURE_COUNT' = count_after_invoke(REQUEST_FUTURE_COUNT, r.res)
    /\ UNCHANGED << singleton, pc, listener, config, server, conn, handler >>

\* The caller of inject_raw takes the result; the slot serves its next call.
InjectReturns(k) ==
    /\ inj[k].req = "result"
    /\ inj' = [inj EXCEPT ![k] = IdleInject]
    /\ UNCHANGED << singleton, REQUEST_FUTURE_COUNT, pc, listener, config, server, conn, handler >>

\* The caller drops the inject_raw future while it awaits invoke.
InjectDropped(k) ==
    /\ inj[k].req = "inflight"
    /\ inj' = [inj EXCEPT ![k].req = "dropped"]
    /\ UNCHANGED << singleton, REQUEST_FUTURE_COUNT, pc, listener, config, server, conn, handler >>

\* ------------------------------------------------------- ListenerBuilder
\* The state while the caller still holds the ListenerBuilder, which is made
\* by ListenerBuilder::new() (request timeout Some(30000)) or by the derived
\* Default (request timeout None); every other field is None / false.  The
\* variables of the configuration hold the builder's fields.
InitBuilder ==
    /\ INIT_STACK = "New"
    /\ STACK = None
    /\ SERVER_NAME = None
    /\ REQUEST_BODY_BYTES_LIMIT = None
    /\ REQUEST_FUTURE_COUNT = 0
    /\ pc = [i \in Callers |-> IF i = RunCaller THEN "builder" ELSE "start"]
    /\ server_value = [i \in Callers |-> "unparsed"]
    /\ listener = "none"
    /\ request_timeout_ms \in {"None", "Some"}
    /\ ssl_config = [cert_config |-> "None", key_config |-> "None"]
    /\ signal = "absent"
    /\ graceful = FALSE
    /\ draining = FALSE
    /\ shutdown = "Pending"
    /\ woken = FALSE
    /\ timers = 0
    /\ conn = [c \in Conns |-> "none"]
    /\ handler = [c \in Conns |-> IdleHandler]
    /\ inj = [k \in Injectors |-> IdleInject]

\* A setter that stores the certificate and leaves the key as it was.
set_ssl_config_cert_only(ssl) == [ssl EXCEPT !.cert_config = "Some"]

\* ListenerBuilder::set_ssl_config, to which set_ssl_certificates delegates:
\* both fields are stored.
set_ssl_config(ssl) == [cert_config |-> "Some", key_config |-> "Some"]

\* ListenerBuilder::request_timeout(timeout_ms)
BuilderRequestTimeout ==
    /\ pc[RunCaller] = "builder"
    /\ \E t \in {"None", "Some"} : request_timeout_ms' = t
    /\ UNCHANGED << singleton, REQUEST_FUTURE_COUNT, pc, server_value, listener,
                    ssl_config, graceful, server, requests >>

\* ListenerBuilder::shutdown(signal, graceful)
BuilderShutdown ==
    /\ pc[RunCaller] = "builder"
    /\ signal' = "waiting"
    /\ \E g \in BOOLEAN : graceful' = g
    /\ UNCHANGED << singleton, REQUEST_FUTURE_COUNT, pc, server_value, listener,
                    request_timeout_ms, ssl_config, draining, shutdown, woken,
                    timers, requests >>

\* ListenerBuilder::set_ssl_certificates / set_ssl_config
BuilderSetSsl ==
    /\ pc[RunCaller] = "builder"
    /\ ssl_config' = set_ssl_config(ssl_config)
    /\ UNCHANGED << singleton, REQUEST_FUTURE_COUNT, pc, server_value, listener,
                    request_timeout_ms, graceful, server, requests >>

\* ListenerBuilder::build, from Builder::build: the fields become the
\* ListenerConfig of the Server, on which run is then called.
BuilderBuild ==
    /\ pc[RunCaller] = "builder"
    /\ pc' = [pc EXCEPT ![RunCaller] = "start"]
    /\ UNCHANGED << singleton, REQUEST_FUTURE_COUNT, listener, config, server,
                    requests >>

\* ------------------------------------------------------- specifications
Connection(c) ==
    \/ ConnArrives(c)
    \/ HandshakeDone(c)
    \/ HandlerCall(c)
    \/ StackHandlerDone(c)
    \/ TimeoutStackHandlerDone(c)
    \/ HyperResponds(c)
    \/ ConnCloses(c)
    \/ ConnAborts(c)

Inject(k) ==
    \/ InjectCall(k)
    \/ InjectDone(k)
    \/ InjectReturns(k)
    \/ InjectDropped(k)

\* One Server::run from its start to its return and the connections it
\* serves, one request at a time on each (HTTP/1).
Next ==
    \/ write_into_static(RunCaller)
    \/ RunBind
    \/ RunIncoming
    \/ SignalFires
    \/ DelayElapses
    \/ ServerFuture_poll
    \/ \E c \in Conns : Connection(c)

Spec == Init /\ [][Next]_vars

\* The same run for every ListenerConfig the type admits.
SpecAnyConfig == InitAnyConfig /\ [][Next]_vars

\* Server::run and the build_stack_only calls racing for the singleton, with
\* inject_raw calls, which depend on the singleton alone, beside them.
NextSingleton ==
    \/ \E i \in Callers : write_into_static(i)
    \/ \E k \in Injectors : Inject(k)

SpecSingleton == Init /\ [][NextSingleton]_vars

\* The run of a Server whose configuration the caller made through the
\* public ListenerBuilder (interface, server_name and request_body_max_bytes
\* store into fields that no variable here holds).
NextBuilder ==
    \/ BuilderRequestTimeout
    \/ BuilderShutdown
    \/ BuilderSetSsl
    \/ BuilderBuild
    \/ Next

SpecBuilder == InitBuilder /\ [][NextBuilder]_vars

\* The run under the scheduling the runtime gives it: the executor polls a
\* task that has been woken, and a spawned delay_for elapses.
SpecLive ==
    /\ Init
    /\ [][Next]_vars
    /\ WF_vars(ServerFuture_poll)
    /\ WF_vars(DelayElapses)

\* The whole life of the singleton: one Server::run from its start to its
\* end under any ListenerConfig, with no client connecting, beside the other
\* callers of write_into_static and the inject_raw calls of the process.
NextProcess ==
    \/ \E i \in Callers : write_into_static(i)
    \/ RunBind
    \/ RunIncoming
    \/ SignalFires
    \/ DelayElapses
    \/ ServerFuture_poll
    \/ \E k \in Injectors : Inject(k)

\* Its initial states: any ListenerConfig with the request timeout that
\* ListenerBuilder::new sets; with no connection the choice between the two
\* accept loops has no effect.
InitProcess == InitAnyConfig /\ request_timeout_ms = "Some"

SpecProcess == InitProcess /\ [][NextProcess]_vars

\* ------------------------------------------------------------------ claims
\* A request that has incremented the counter and has not decremented it:
\* it is in the middleware chain, or its future was dropped there.
Outstanding ==
    Cardinality({c \in Conns : handler[c].req \in {"inflight", "dropped"}})
    + Cardinality({k \in Injectors : inj[k].req \in {"inflight", "dropped"}})

\* In this step the request of connection c / inject_raw call k leaves
\* invoke or invoke_with_timeout.
Exits(c) == handler[c].req = "inflight" /\ handler'[c].req = "result"
InjectExits(k) == inj[k].req = "inflight" /\ inj'[k].req = "result"

\* C1: a request that incremented the counter decrements it exactly once when
\* it leaves invoke / invoke_with_timeout, on every exit path, and nothing else
\* decrements it; once every request that began has completed the counter is 0.
C1_DecrementOnEveryExit ==
    /\ [][/\ \A c \in Conns :
                Exits(c) => REQUEST_FUTURE_COUNT' = REQUEST_FUTURE_COUNT - 1
          /\ \A k \in Injectors :
                InjectExits(k) => REQUEST_FUTURE_COUNT' = REQUEST_FUTURE_COUNT - 1
          /\ REQUEST_FUTURE_COUNT' < REQUEST_FUTURE_COUNT =>
                \/ \E c \in Conns : Exits(c)
                \/ \E k \in Injectors : InjectExits(k)]_vars
    /\ []((/\ \A c \in Conns : handler[c].req \in {"idle", "result"}
           /\ \A k \in Injectors : inj[k].req \in {"idle", "result"})
          => REQUEST_FUTURE_COUNT = 0)

\* Two requests have completed, one with Ok and one with Err, and the counter
\* is back at 0.
C1_Witness ==
    /\ REQUEST_FUTURE_COUNT = 0
    /\ \E c, d \in Conns :
          /\ handler[c].req = "result" /\ handler[c].invoked.kind = "Ok"
          /\ handler[d].req = "result" /\ handler[d].invoked.kind = "Err"

\* The caller has come back from write_into_static with Ok.
Initialized(i) ==
    pc[i] \in {"Ok", "bound", "bind_failed", "ssl_config_error", "panicked",
               "serving", "returned"}

\* In this step caller i calls write_into_static and evaluates its state check.
EntersWis(i) ==
    pc[i] = "start" /\ pc'[i] \notin {"start", "InvalidHeaderValue"}

\* C2: a call of the initializer that evaluates its state check after another
\* call has returned Ok returns StackAlreadyInitialized.
C2_LateInitFails ==
    [][\A i \in Callers :
          (/\ EntersWis(i)
           /\ \E j \in Callers : Initialized(j))
          => pc'[i] = "StackAlreadyInitialized"]_vars

\* One call has returned Ok, the Once is Done and another call has failed.
C2_Witness ==
    /\ INIT_STACK = "Done"
    /\ \E i, j \in Callers : Initialized(j) /\ pc[i] = "StackAlreadyInitialized"

\* C3: at most one initializer call returns Ok, under every interleaving of
\* the state check and call_once.
C3_AtMostOneSuccess ==
    Cardinality({i \in Callers : Initialized(i)}) <= 1

\* C4: each of the three stored values, once written, is never changed by a
\* later or concurrent initializer call.
C4_WrittenOnce ==
    [][/\ STACK # None => STACK' = STACK
       /\ SERVER_NAME # None => SERVER_NAME' = SERVER_NAME
       /\ REQUEST_BODY_BYTES_LIMIT # None =>
             REQUEST_BODY_BYTES_LIMIT' = REQUEST_BODY_BYTES_LIMIT]_vars

\* The cell holds the first caller's values while a concurrent caller, whose
\* values were not stored, has also come back from the initializer.
C4_Witness ==
    /\ INIT_STACK = "Done"
    /\ \E i, j \in Callers :
          /\ i # j
          /\ STACK = Some(i) /\ SERVER_NAME = Some(i)
          /\ REQUEST_BODY_BYTES_LIMIT = Some(i)
          /\ pc[j] \in {"Ok", "StackAlreadyInitialized"}

\* C5: a connection that the incoming stream yields to the accept closure in
\* a poll in which the draining flag is true is dropped unserved (under TLS
\* the stream yields it after its handshake), and a handler is spawned only
\* while the flag is false, in both accept loops.
C5_NoAdmissionWhileDraining ==
    [][\A c \in Conns :
          /\ (conn[c] \in {"queued_ok", "queued_err", "hs_ok", "hs_err"}
                  /\ conn'[c] # conn[c] /\ draining')
                => \/ conn'[c] = "skipped"
                   \/ /\ ssl_match(ssl_config) = "Tls"
                      /\ conn[c] = "queued_ok"
                      /\ conn'[c] = "handshake"
          /\ (~Serving(c) /\ Serving(c)') => (~draining /\ ~draining')]_vars

\* While draining, one connection was dropped unserved and another, admitted
\* before, is being served.
C5_Witness ==
    /\ draining
    /\ \E c, d \in Conns : conn[c] = "skipped" /\ Serving(d)

\* C6: when a graceful shutdown resolves the server future, every request
\* that a connection admitted before draining has handed to its handler has
\* been answered (or has ended in an error, which leaves nothing to write).
C6_AdmittedRequestsAnswered ==
    [][(graceful /\ pc[RunCaller] = "serving" /\ pc'[RunCaller] = "returned")
          => \A c \in Conns :
                Serving(c) => \/ handler[c].req = "idle"
                              \/ /\ handler[c].req = "result"
                                 /\ handler[c].out.kind = "Err"]_vars

\* C7: under graceful shutdown the controller resolves only at a poll that
\* finds draining true and the counter at 0, so no request that incremented
\* the counter is still to decrement it.
C7_ResolvesOnlyWhenDrained ==
    [][(graceful /\ pc[RunCaller] = "serving" /\ pc'[RunCaller] = "returned")
          => /\ draining
             /\ REQUEST_FUTURE_COUNT = 0
             /\ Outstanding = 0
             /\ shutdown' = "Ready"]_vars

\* The graceful shutdown has ended the run after every connection's request
\* left the pipeline.
C7_Witness ==
    /\ graceful
    /\ pc[RunCaller] = "returned"
    /\ \A c \in Conns : Serving(c) /\ handler[c].req = "result"

\* The error a failed pipeline ends with.
pipeline_error(mw) == IF mw = "NoResponse" THEN "ResponseMoved" ELSE "MwError"

\* C8: a middleware error or a missing response is logged and converted into
\* the error's rendered response, an Ok result, by invoke and by
\* invoke_with_timeout alike (building the response permitting).
C8_FailureRendered ==
    \A c \in Conns :
        (/\ handler[c].req = "result"
         /\ handler[c].mw \in {"MwError", "NoResponse"}
         /\ handler[c].invoked.err # "BuildError")
        => /\ handler[c].invoked =
                Ok([body |-> "rendered", of |-> pipeline_error(handler[c].mw),
                    server |-> None])
           /\ handler[c].logged = << pipeline_error(handler[c].mw) >>

\* C9: when the timer elapses first, invoke_with_timeout logs RequestTimeout
\* and returns its rendered response (or, when building it fails, the build
\* error, logged too), without the middleware result, and the counter is
\* decremented exactly once.
C9_TimeoutRendered ==
    [][\A c \in Conns :
          (Exits(c) /\ handler'[c].mw = "Elapsed")
          => /\ REQUEST_FUTURE_COUNT' = REQUEST_FUTURE_COUNT - 1
             /\ \/ /\ handler'[c].invoked =
                        Ok([body |-> "rendered", of |-> "RequestTimeout",
                            server |-> None])
                   /\ handler'[c].logged = << "RequestTimeout" >>
                \/ /\ handler'[c].invoked = Err("BuildError")
                   /\ handler'[c].logged = << "RequestTimeout", "BuildError" >>]_vars

\* A request timed out and its result is the rendered RequestTimeout.
C9_Witness ==
    \E c \in Conns :
        /\ handler[c].req = "result"
        /\ handler[c].mw = "Elapsed"
        /\ handler[c].invoked.kind = "Ok"
        /\ handler[c].invoked.resp.of = "RequestTimeout"

\* C10: the counter is never negative and equals the number of requests that
\* have begun and not finished, so it reads 0 only when none is in process.
C10_CounterCountsRequests ==
    /\ REQUEST_FUTURE_COUNT >= 0
    /\ REQUEST_FUTURE_COUNT = Outstanding

\* The counter is at 1 with one request in the middleware chain and another
\* already finished.
C10_Witness ==
    /\ REQUEST_FUTURE_COUNT = 1
    /\ \E c, d \in Conns : handler[c].req = "inflight" /\ handler[d].req = "result"

\* C11: the draining flag starts false, its only transition is from false to
\* true, and once true it stays true for the rest of the process.
C11_DrainingMonotonic ==
    /\ ~draining
    /\ [][draining => draining']_vars

\* The flag is set and the controller has been polled again since: it has
\* resolved, with the flag still set.
C11_Witness ==
    /\ draining
    /\ shutdown = "Ready"
    /\ pc[RunCaller] = "returned"

\* A step in which the executor polls the server future.
Polled == pc[RunCaller] = "serving" /\ woken /\ ~woken'

\* C12: when graceful shutdown is not requested, the controller resolves at
\* the first poll at which the signal is ready, whatever the counter reads,
\* not before, and the draining flag is never set.
C12_NonGracefulResolvesAtOnce ==
    /\ [](~graceful => ~draining)
    /\ [][(Polled /\ ~graceful)
            => IF signal = "fired"
               THEN shutdown' = "Ready" /\ pc'[RunCaller] = "returned"
               ELSE shutdown' = "Pending" /\ pc'[RunCaller] = "serving"]_vars

\* The run has returned without draining while a request was in process.
C12_Witness ==
    /\ ~graceful
    /\ ~draining
    /\ pc[RunCaller] = "returned"
    /\ REQUEST_FUTURE_COUNT > 0

\* C13: under graceful shutdown, once the signal has fired in a serving run,
\* if the counter reaches 0 and stays there the controller eventually
\* resolves, because every Pending it returns while draining has spawned a
\* delay_for that wakes the task again.
C13_DrainEventuallyResolves ==
    /\ [][(Polled /\ draining' /\ shutdown' = "Pending") => timers' = timers + 1]_vars
    /\ (<>[](REQUEST_FUTURE_COUNT = 0))
          => ((graceful /\ signal = "fired" /\ pc[RunCaller] = "serving")
                 ~> pc[RunCaller] = "returned")

\* A graceful shutdown resolved with the counter back at 0, after it refused
\* one connection and let another finish its request.
C13_Witness ==
    /\ graceful
    /\ pc[RunCaller] = "returned"
    /\ REQUEST_FUTURE_COUNT = 0
    /\ \E c, d \in Conns :
          conn[c] = "skipped" /\ Serving(d) /\ handler[d].req = "result"

\* C14: a poll of the server future polls the shutdown controller first and
\* resolves when it is ready, without polling the accept loop; it stays
\* pending while the controller and the accept loop are both pending.
C14_ShutdownPolledFirst ==
    [][Polled
         => IF shutdown' = "Ready"
            THEN pc'[RunCaller] = "returned" /\ conn' = conn
            ELSE pc'[RunCaller] = "serving"]_vars

\* The run has ended with a connection still waiting in the listener, which
\* the accept loop was not polled to take.
C14_Witness ==
    /\ pc[RunCaller] = "returned"
    /\ \E c \in Conns : conn[c] \in {"queued_ok", "queued_err"}

\* C15: when no shutdown signal is configured the controller never
\* resolves, the draining flag is never set, no connection is refused, and
\* every poll of the accept loop hands the connections its stream yields
\* (after their handshake, under TLS) to a handler.
C15_NoSignalNeverStops ==
    /\ [](signal = "absent"
            => ~draining /\ shutdown = "Pending" /\ pc[RunCaller] # "returned")
    /\ [](signal = "absent" => \A c \in Conns : conn[c] # "skipped")
    /\ [][(Polled /\ signal = "absent")
            => \A c \in Conns :
                  conn[c] = (IF ssl_match(ssl_config) = "Tls" THEN "hs_ok"
                             ELSE "queued_ok")
                  => Serving(c)']_vars

\* Without a signal, every connection has been admitted and has had a
\* request answered.
C15_Witness ==
    /\ signal = "absent"
    /\ pc[RunCaller] = "serving"
    /\ \A c \in Conns : Serving(c) /\ handler[c].req = "result"

\* C16: an inject_raw call made while the Once is New or in progress returns
\* the "Stack is not initialized" error without reading STACK, without
\* running the pipeline and without changing the counter.
C16_InjectBeforeInitFails ==
    [][\A k \in Injectors :
          (inj[k].req = "idle" /\ inj'[k] # inj[k] /\ INIT_STACK # "Done")
          => /\ inj'[k].req = "result"
             /\ inj'[k].out = Err("Stack is not initialized")
             /\ inj'[k].stack = None
             /\ inj'[k].mw = "none" /\ inj'[k].invoked = NoResult
             /\ REQUEST_FUTURE_COUNT' = REQUEST_FUTURE_COUNT]_vars

\* An inject_raw call holds the error while a caller is inside call_once,
\* with STACK already written and the Once not yet Done.
C16_Witness ==
    /\ INIT_STACK = "InProgress"
    /\ STACK # None
    /\ \E k \in Injectors :
          inj[k].req = "result" /\ inj[k].out = Err("Stack is not initialized")

C18_ServerHeaderOnEveryResponse ==
    /\ \A c \in Conns :
          handler[c].out.kind = "Ok"
          => SERVER_NAME # None /\ handler[c].out.resp.server = SERVER_NAME
    /\ \A k \in Injectors :
          inj[k].out.kind = "Ok"
          => SERVER_NAME # None /\ inj[k].out.resp.server = SERVER_NAME

\* C19: a connection that makes no progress, one whose TLS handshake never
\* completes included, does not keep a later connection from being admitted:
\* when the accept loop has been polled and sleeps, no connection is left
\* waiting in the listener.
C19_NoConnectionWaitsOnAnother ==
    (pc[RunCaller] = "serving" /\ ~woken)
    => \A c \in Conns : conn[c] \notin {"queued_ok", "queued_err"}

\* C20: in Stack::invoke, when the middleware chain succeeds and leaves no
\* response, the outcome is ResponseMoved, logged and rendered into a response
\* as a middleware failure is; when building that response fails, the second
\* error is logged too and is the Err that invoke returns.
C20_ResponseMovedRendered ==
    \A c \in Conns :
        (conn[c] = "StackHandler" /\ handler[c].req = "result"
            /\ handler[c].mw = "NoResponse")
        => \/ /\ handler[c].invoked =
                    Ok([body |-> "rendered", of |-> "ResponseMoved", server |-> None])
              /\ handler[c].logged = << "ResponseMoved" >>
           \/ /\ handler[c].invoked = Err("BuildError")
              /\ handler[c].logged = << "ResponseMoved", "BuildError" >>

\* Two requests left no response: one got the rendered ResponseMoved, the
\* other the error of the failed rendering.
C20_Witness ==
    \E c, d \in Conns :
        /\ conn[c] = "StackHandler" /\ conn[d] = "StackHandler"
        /\ handler[c].req = "result" /\ handler[d].req = "result"
        /\ handler[c].mw = "NoResponse" /\ handler[d].mw = "NoResponse"
        /\ handler[c].invoked.kind = "Ok"
        /\ handler[c].invoked.resp.of = "ResponseMoved"
        /\ handler[d].invoked = Err("BuildError")

\* Some handler future was dropped between call() and its completion.
Dropped == \E c \in Conns : handler[c].req = "dropped"

\* C21: a handler future dropped after call() incremented the counter and
\* before it completed does not decrement it; from then on the counter stays
\* above 0, and a graceful shutdown of the run never resolves.
C21_DroppedRequestBlocksShutdown ==
    /\ [][\A c \in Conns :
            (handler[c].req = "inflight" /\ handler'[c].req = "dropped")
            => REQUEST_FUTURE_COUNT' = REQUEST_FUTURE_COUNT]_vars
    /\ [](Dropped => REQUEST_FUTURE_COUNT > 0)
    /\ [][(graceful /\ Dropped /\ pc[RunCaller] = "serving")
            => pc'[RunCaller] = "serving"]_vars

\* The run is draining, the only request counted is one whose future was
\* dropped, and the controller has answered Pending and armed its timer.
C21_Witness ==
    /\ graceful /\ draining
    /\ pc[RunCaller] = "serving"
    /\ shutdown = "Pending"
    /\ timers > 0
    /\ REQUEST_FUTURE_COUNT = 1
    /\ Dropped
    /\ \A c \in Conns : handler[c].req # "inflight"

\* Server::run has passed write_into_static and has ended: by shutdown, by a
\* bind failure, by the partial-TLS error, or by the panic of a failed load.
RunEnded ==
    pc[RunCaller] \in {"returned", "bind_failed", "ssl_config_error", "panicked"}

C23_NoReadBeforeWrite ==
    /\ [][\A i \in Callers :
            (pc[i] = "read_stack" /\ pc'[i] = "Ok")
            => INIT_STACK = "Done" /\ STACK # None]_vars
    /\ [][\A k \in Injectors :
            (inj[k].stack = None /\ inj'[k].stack # None)
            => INIT_STACK = "Done" /\ STACK # None /\ inj'[k].stack = Some(STACK)]_vars
    /\ [](pc[RunCaller] \in {"bound", "serving", "returned"}
            => INIT_STACK = "Done" /\ STACK # None /\ SERVER_NAME # None)
    /\ [](\A c \in Conns :
            conn[c] # "none"
            => INIT_STACK = "Done" /\ STACK # None /\ SERVER_NAME # None)

\* Two callers raced through write_into_static and both read the stack, the
\* run is serving, and an inject_raw call has read the stack too.
C23_Witness ==
    /\ pc[RunCaller] = "serving"
    /\ \E i \in BuildCallers : pc[i] = "Ok"
    /\ \E k \in Injectors : inj[k].req = "inflight" /\ inj[k].stack = Some(STACK)

\* C24: a server name that is not a valid header value makes Server::run and
\* build_stack_only fail before the singleton is touched: the failing call
\* changes neither the Once, nor the cell, nor the counter, and binds no
\* socket; while only such calls have been made the Once is New and the cell
\* unwritten, and a valid call made then enters call_once.
C24_InvalidNameTouchesNothing ==
    /\ [](\A i \in Callers : server_value[i] = "Err" => pc[i] = "InvalidHeaderValue")
    /\ [][\A i \in Callers :
            (pc[i] = "start" /\ pc'[i] = "InvalidHeaderValue")
            => /\ singleton' = singleton
               /\ listener' = listener
               /\ REQUEST_FUTURE_COUNT' = REQUEST_FUTURE_COUNT]_vars
    /\ []((\A i \in Callers : pc[i] \in {"start", "InvalidHeaderValue"})
            => /\ INIT_STACK = "New"
               /\ STACK = None /\ SERVER_NAME = None
               /\ listener = "none")
    /\ [](pc[RunCaller] = "InvalidHeaderValue" => listener = "none")
    /\ [][\A j \in Callers :
            (/\ \A i \in Callers : pc[i] \in {"start", "InvalidHeaderValue"}
             /\ pc[j] = "start"
             /\ server_value'[j] = "Ok")
            => pc'[j] = "call_once"]_vars

\* Server::run failed on its server name and a build_stack_only has
\* initialized the singleton all the same.
C24_Witness ==
    /\ pc[RunCaller] = "InvalidHeaderValue"
    /\ listener = "none"
    /\ \E j \in BuildCallers : pc[j] = "Ok" /\ STACK = Some(j)

\* C25: the shutdown signal future is never polled again after it has
\* returned Ready: a graceful controller is draining from then on and each
\* later poll takes the draining branch, a non-graceful one has resolved.
C25_SignalPolledOnceReady ==
    /\ [](signal # "repolled")
    /\ [](signal = "consumed"
            => IF graceful THEN draining ELSE pc[RunCaller] = "returned")
    /\ [][(Polled /\ signal = "consumed")
            => /\ signal' = "consumed"
               /\ shutdown' = (IF REQUEST_FUTURE_COUNT = 0 THEN "Ready"
                                ELSE "Pending")]_vars

\* The signal returned Ready to a graceful controller, which resolved in a
\* later poll, through its draining branch, after a request with a timeout
\* had completed.
C25_Witness ==
    /\ graceful
    /\ signal = "consumed"
    /\ pc[RunCaller] = "returned"
    /\ \E c \in Conns : handler[c].req = "result" /\ conn[c] = "TimeoutStackHandler"

\* In this step hyper hands connection c's handler a request.
Calls(c) == handler[c].req = "idle" /\ handler'[c].req = "inflight"

\* C26: only the first request served on a connection carries the peer
\* address.  A handler is created holding the address; each call builds its
\* request with what the handler holds and leaves None behind, and a handler
\* that holds None holds None from then on.
C26_PeerAddrOnFirstRequestOnly ==
    /\ [](\A c \in Conns : ~Serving(c) /\ conn[c] \in {"none", "queued_ok", "handshake", "hs_ok"}
                              => handler[c].peer_addr = "Some")
    /\ [][\A c \in Conns :
            Calls(c) => /\ handler'[c].peer = handler[c].peer_addr
                        /\ handler'[c].peer_addr = "None"]_vars
    /\ [][\A c \in Conns :
            handler[c].peer_addr = "None" => handler'[c].peer_addr = "None"]_vars

\* One connection is on its first request, built with the peer address;
\* another, kept alive, is on a later request, built without.
C26_Witness ==
    \E c, d \in Conns :
        /\ handler[c].req = "inflight" /\ handler[c].peer = "Some"
        /\ handler[d].req = "inflight" /\ handler[d].peer = "None"

\* C27: after any sequence of ListenerBuilder calls the certificate and the
\* key are both set or both unset, in the builder and in the ListenerConfig
\* built from it, so a Server made through the builder never reaches the
\* partial-TLS error of run.
C27_BuilderNeverPartialTls ==
    /\ ssl_config.cert_config = ssl_config.key_config
    /\ ssl_match(ssl_config) # "Invalid SSL configuration, missing cert or key"
    /\ pc[RunCaller] # "ssl_config_error"

\* A Server whose builder was given a certificate and a key is serving.
C27_Witness ==
    /\ pc[RunCaller] = "serving"
    /\ ssl_config = [cert_config |-> "Some", key_config |-> "Some"]

====
